---- MODULE Spec2Model ----
(***************************************************************************)
(* Frame lifecycle of vkx::vulkanApp (src/vulkan/src/vulkanClasses/        *)
(* vulkanApp.cpp): run() -> prepare() -> renderLoop() -> waitIdle ->       *)
(* ~vulkanApp(), with the GPU queue as a concurrent process.               *)
(*                                                                         *)
(* The CPU thread is the program counter pc.  prepareFrame is cut between  *)
(* its rebuild and acquireNextImage, drawCurrentCommandBuffer at its two   *)
(* calls (executePendingTransfers, context.recycle), so that the GPU can   *)
(* make progress between them; every cut is a forced sequence.  Spec has a *)
(* window of fixed size, SpecResize one that the user may resize.          *)
(*                                                                         *)
(* vkx::Context (dumpster, recycler, trashCommandBuffers, emptyDumpster,   *)
(* recycle, destroyContext) and vkx::SwapChain (getSubmitFence,            *)
(* clearSubmitFence, acquireNextImage) are declared outside this source    *)
(* tree; they are modelled from sections 4.1 and 4.3 of the specification. *)
(* Handles are natural numbers, 0 is the null handle; allocation always    *)
(* returns a fresh handle.                                                 *)
(***************************************************************************)
EXTENDS Integers, Sequences, FiniteSets, TLC

\* ---- bounds ----
MaxFrames == 3
MaxUpdates == 2
ImageCount == 2
UpdateSizes == {16, 32}
MaxResizes == 1

\* ---- handles fixed at construction (initVulkan) ----
NullHandle == 0
AcquireComplete == 1
RenderComplete == 2

\* ---- extents: none before swapChain.create, the window's size at start ----
NoExtent == 0
InitialExtent == 1

\* ---- the failure of swapChain.acquireNextImage ----
OutOfDate == -1

VARIABLES
    pc,                     \* position of the CPU thread
    quit,                   \* vulkanApp::quit
    prepared,               \* vulkanApp::prepared
    enableTextOverlay,      \* vulkanApp::enableTextOverlay
    frames,                 \* number of draw() calls started so far
    currentBuffer,          \* vulkanApp::currentBuffer
    currentImage,           \* swapChain's current image
    primaryCmdBuffers,      \* sequences of command buffer handles
    drawCmdBuffers,
    textCmdBuffers,
    primaryCmdBuffersDirty,
    pendingUpdates,         \* sequence of update records
    transferComplete,       \* semaphores.transferComplete
    transferPending,        \* local of drawCurrentCommandBuffer, passed on
    dumpster,               \* context.dumpster: sequence of closures
    recycler,               \* context.recycler: sequence of [fence, lambda]
    imageFence,             \* swapChain per-image submit fence
    submissions,            \* the queue: every vkQueueSubmit so far
    cmdRec,                 \* what each live command buffer has recorded
    cmdFreed,               \* freed command buffer handles
    semDestroyed,           \* destroyed semaphore handles
    doubleFreed,            \* handles freed or destroyed a second time
    retiredFences,          \* fences recycle() has finished with
    nextHandle,             \* allocator of fresh handles
    SDLWindow,              \* vulkanApp::SDLWindow: "open" or "destroyed"
    windowSize,             \* extent of the window's surface (an extent id)
    swapChainSize,          \* extent the swapchain was created for
    framebuffers,           \* vulkanApp::framebuffers: the extent of each
    presents,               \* every queuePresent so far: frame, image, semaphore waited on
    framePhases,            \* phases the current frame has gone through (observation only)
    lastOp                  \* what the last CPU step did (observation only)

vars == <<pc, quit, prepared, enableTextOverlay, frames, currentBuffer,
          currentImage, primaryCmdBuffers, drawCmdBuffers, textCmdBuffers,
          primaryCmdBuffersDirty, pendingUpdates, transferComplete,
          transferPending, dumpster, recycler, imageFence, submissions,
          cmdRec, cmdFreed, semDestroyed, doubleFreed, retiredFences,
          nextHandle, SDLWindow, windowSize, swapChainSize, framebuffers, presents, framePhases,
          lastOp>>

\* ---- small helpers ----
Range(s) == {s[i] : i \in 1..Len(s)}

Images == 0..(ImageCount - 1)

\* n fresh handles starting at h
FreshSeq(h, n) == [i \in 1..n |-> h + i - 1]

\* what a CPU step leaves in lastOp: its name, the command buffers it reset
\* or recorded, and what it ran in order (recycle: the fences of the reclaim
\* entries; updateDrawCommandBuffers: the image indices of the callbacks)
Op(name, reset, ran) == [op |-> name, reset |-> reset, ran |-> ran]

\* ---- the GPU side of fences and semaphores ----
\* a fence is signaled once the submission it was passed to has completed
FenceSignaled(f) ==
    \E k \in 1..Len(submissions) :
        submissions[k].fence = f /\ submissions[k].st = "done"

\* acquire-complete is signaled by the presentation engine; every other
\* semaphore is signaled by the completion of a submission that lists it
SemSignaled(s) ==
    \/ s = AcquireComplete
    \/ \E k \in 1..Len(submissions) :
           s \in Range(submissions[k].signals) /\ submissions[k].st = "done"

\* queue.waitIdle() returns when every submission has completed
QueueIdle == \A k \in 1..Len(submissions) : submissions[k].st = "done"

\* command buffers referenced by a submission that has not completed
PendingCmds ==
    UNION {{submissions[k].cmd} \cup
             (IF submissions[k].cmd \in DOMAIN cmdRec
              THEN {c.a : c \in {d \in Range(cmdRec[submissions[k].cmd]) :
                                     d.cmd = "executeCommands"}}
              ELSE {})
           : k \in {j \in 1..Len(submissions) : submissions[j].st # "done"}}

\* does a semaphore wait at this stage mask hold back the commands of a
\* submission of this kind?  Draw commands run in the graphics stages,
\* updateBuffer in the transfer stage.
StageCovers(stage, kind) ==
    \/ stage = "eAllCommands"
    \/ stage = "eTransfer" /\ kind = "transfer"
    \/ stage = "submitPipelineStages" /\ kind = "main"

\* ---- closures held by the dumpster and the recycler ----
Closure(kind, arg) == [kind |-> kind, arg |-> arg]

\* run one closure on the heap h = [imageFence, semDestroyed, cmdFreed, doubleFreed]
RunClosure(c, h) ==
    CASE c.kind = "clearSubmitFence" ->
            [h EXCEPT !.imageFence[c.arg[1]] = NullHandle]
      [] c.kind = "destroySemaphore" ->
            [h EXCEPT !.semDestroyed = @ \cup {c.arg[1]},
                      !.doubleFreed = @ \cup ({c.arg[1]} \cap h.semDestroyed)]
      [] c.kind = "freeCommandBuffers" ->
            [h EXCEPT !.cmdFreed = @ \cup Range(c.arg),
                      !.doubleFreed = @ \cup (Range(c.arg) \cap h.cmdFreed)]

RECURSIVE RunLambda(_, _)
RunLambda(cs, h) ==
    IF cs = <<>> THEN h
    ELSE RunLambda(Tail(cs), RunClosure(Head(cs), h))

RECURSIVE RunEntries(_, _)
RunEntries(es, h) ==
    IF es = <<>> THEN h
    ELSE RunEntries(Tail(es), RunLambda(Head(es).lambda, h))

Heap == [imageFence |-> imageFence, semDestroyed |-> semDestroyed,
         cmdFreed |-> cmdFreed, doubleFreed |-> doubleFreed]

\* device.freeCommandBuffers called directly
FreeNow(bufs, h) == RunClosure(Closure("freeCommandBuffers", bufs), h)

\* ---- vkx::Context ----
\* trashCommandBuffers(v): queue the handles of v for destruction and leave
\* v empty; nothing is queued for an empty v
trashCommandBuffers(bufs, d) ==
    [dumpster |-> IF bufs = <<>> THEN d
                  ELSE Append(d, Closure("freeCommandBuffers", bufs)),
     cmdBuffers |-> <<>>]

\* emptyDumpster(fence): the queued closures become one reclaim entry
emptyDumpster(fence, d, r) ==
    [dumpster |-> <<>>,
     recycler |-> Append(r, [fence |-> fence, lambda |-> d])]

\* a recycle() that only checks that the entry has a fence
EligibleAnyFence(e) == e.fence # NullHandle

\* recycle() polls: an entry is eligible when its fence reads signaled
Eligible(e) == FenceSignaled(e.fence)

\* ---- recording ----
Cmd(c, a, b) == [cmd |-> c, a |-> a, b |-> b]

\* a recording whose callback runs after end
SecondaryRecOutside(tag, i) == <<Cmd("begin", i, 0), Cmd("end", i, 0), Cmd(tag, i, 0)>>

\* what populateSubCommandBuffers records into the buffer of image i:
\* the callback f (tag) runs between begin and end
SecondaryRec(tag, i) == <<Cmd("begin", i, 0), Cmd(tag, i, 0), Cmd("end", i, 0)>>

\* what buildCommandBuffers records into the primary buffer of image i
PrimaryRec(i, draws, texts, overlay) ==
    <<Cmd("begin", i, 0), Cmd("beginRenderPass", i, 0)>>
    \o (IF draws # <<>> THEN <<Cmd("executeCommands", draws[i + 1], 0)>> ELSE <<>>)
    \o (IF overlay /\ texts # <<>> THEN <<Cmd("executeCommands", texts[i + 1], 0)>> ELSE <<>>)
    \o <<Cmd("endRenderPass", i, 0), Cmd("end", i, 0)>>

\* a recording loop that walks the queue from the back
RECURSIVE UpdateCmdsReversed(_)
UpdateCmdsReversed(ups) ==
    IF ups = <<>> THEN <<>>
    ELSE UpdateCmdsReversed(Tail(ups)) \o <<Cmd("updateBuffer", Head(ups), 0)>>

\* what executePendingTransfers records: one updateBuffer per queued update
RECURSIVE UpdateCmds(_)
UpdateCmds(ups) ==
    IF ups = <<>> THEN <<>>
    ELSE <<Cmd("updateBuffer", Head(ups), 0)>> \o UpdateCmds(Tail(ups))

TransferRec(ups) == <<Cmd("begin", 0, 0)>> \o UpdateCmds(ups) \o <<Cmd("end", 0, 0)>>

\* forget the recordings of freed buffers
Live(rec, freed) == [c \in (DOMAIN rec) \ freed |-> rec[c]]

\* ---- initial state: after the constructor (initVulkan) ----
Init ==
    /\ pc = "run"
    /\ quit = FALSE
    /\ prepared = FALSE
    /\ enableTextOverlay \in BOOLEAN
    /\ frames = 0
    /\ currentBuffer = 0
    /\ currentImage = 0
    /\ primaryCmdBuffers = <<>>
    /\ drawCmdBuffers = <<>>
    /\ textCmdBuffers = <<>>
    /\ primaryCmdBuffersDirty = TRUE
    /\ pendingUpdates = <<>>
    /\ transferComplete = NullHandle
    /\ transferPending = NullHandle
    /\ dumpster = <<>>
    /\ recycler = <<>>
    /\ imageFence = [i \in Images |-> NullHandle]
    /\ submissions = <<>>
    /\ cmdRec = <<>>
    /\ cmdFreed = {}
    /\ semDestroyed = {}
    /\ doubleFreed = {}
    /\ retiredFences = {}
    /\ nextHandle = RenderComplete + 1
    /\ SDLWindow = "open"
    /\ windowSize = InitialExtent
    /\ swapChainSize = NoExtent
    /\ framebuffers = <<>>
    /\ presents = <<>>
    /\ framePhases = <<>>
    /\ lastOp = Op("none", {}, <<>>)

\* an allocation of one secondary more than the swapchain has images
populateSubOneMore(cmdBuffers, tag, d, h0) ==
    LET t == IF cmdBuffers # <<>> THEN trashCommandBuffers(cmdBuffers, d)
             ELSE [dumpster |-> d, cmdBuffers |-> cmdBuffers]
        new == FreshSeq(h0, ImageCount + 1)
    IN  [cmdBuffers |-> new,
         dumpster |-> t.dumpster,
         rec |-> [c \in Range(new) |-> SecondaryRec(tag, c - h0)],
         calls |-> [i \in 1..ImageCount |-> i - 1],
         next |-> h0 + ImageCount + 1,
         currentBuffer |-> 0]

\* ---- populateSubCommandBuffers(cmdBuffers, f) ----
\* result: the new vector, the dumpster, the recordings, the image indices
\* the loop called f for (in call order), the next fresh handle
populateSubCommandBuffers(cmdBuffers, tag, d, h0) ==
    LET t == IF cmdBuffers # <<>> THEN trashCommandBuffers(cmdBuffers, d)
             ELSE [dumpster |-> d, cmdBuffers |-> cmdBuffers]
        new == FreshSeq(h0, ImageCount)
    IN  [cmdBuffers |-> new,
         dumpster |-> t.dumpster,
         rec |-> [c \in Range(new) |-> SecondaryRec(tag, c - h0)],
         calls |-> [i \in 1..ImageCount |-> i - 1],
         next |-> h0 + ImageCount,
         currentBuffer |-> 0]

\* an updateTextOverlay whose populateSubCommandBuffers still sees the
\* handles that were just queued for destruction
updateTextOverlayTrashTwice(texts, d, h0, dirty, cur) ==
    IF ~enableTextOverlay
    THEN [cmdBuffers |-> texts, dumpster |-> d, rec |-> <<>>, next |-> h0,
          currentBuffer |-> cur, dirty |-> dirty]
    ELSE LET t == trashCommandBuffers(texts, d)
             p == populateSubCommandBuffers(texts, "text", t.dumpster, h0)
         IN  [cmdBuffers |-> p.cmdBuffers, dumpster |-> p.dumpster, rec |-> p.rec,
              next |-> p.next, currentBuffer |-> p.currentBuffer, dirty |-> TRUE]

\* ---- updateTextOverlay() ----
\* result as for populateSubCommandBuffers, plus the dirty flag
updateTextOverlay(texts, d, h0, dirty, cur) ==
    IF ~enableTextOverlay
    THEN [cmdBuffers |-> texts, dumpster |-> d, rec |-> <<>>, next |-> h0,
          currentBuffer |-> cur, dirty |-> dirty]
    ELSE LET t == trashCommandBuffers(texts, d)
             p == populateSubCommandBuffers(t.cmdBuffers, "text", t.dumpster, h0)
         IN  [cmdBuffers |-> p.cmdBuffers, dumpster |-> p.dumpster, rec |-> p.rec,
              next |-> p.next, currentBuffer |-> p.currentBuffer, dirty |-> TRUE]

\* swapChain.createFramebuffers(info): one framebuffer per swapchain image
createFramebuffers(extent) == [i \in 1..ImageCount |-> extent]

\* ---- setupFrameBuffer(): the old framebuffers are destroyed, new ones are
\* made for the current size ----
setupFrameBuffer(size) == createFramebuffers(size)

\* ---- run() up to the render loop: base prepare(), which creates the
\* swapchain, depth-stencil, render pass and framebuffers for the window's
\* size and then the text overlay ----
Prepare ==
    /\ pc = "run"
    /\ LET u == updateTextOverlay(textCmdBuffers, dumpster, nextHandle,
                                  primaryCmdBuffersDirty, currentBuffer)
       IN  /\ textCmdBuffers' = u.cmdBuffers
           /\ dumpster' = u.dumpster
           /\ cmdRec' = cmdRec @@ u.rec
           /\ nextHandle' = u.next
           /\ currentBuffer' = u.currentBuffer
           /\ primaryCmdBuffersDirty' = u.dirty
    /\ swapChainSize' = windowSize
    /\ framebuffers' = setupFrameBuffer(windowSize)
    /\ pc' = "prepareDraw"
    /\ lastOp' = Op("prepare", Range(textCmdBuffers'), <<>>)
    /\ UNCHANGED <<SDLWindow, windowSize, presents, framePhases, quit, prepared, enableTextOverlay, frames, currentImage,
                   primaryCmdBuffers, drawCmdBuffers, pendingUpdates,
                   transferComplete, transferPending, recycler, imageFence,
                   submissions, cmdFreed, semDestroyed, doubleFreed,
                   retiredFences>>

\* do the new secondaries hold what the old ones held, image by image?
SameContent(old, new, rec, newRec) ==
    /\ Len(old) = Len(new)
    /\ old # <<>>
    /\ \A i \in 1..Len(old) :
          old[i] \in DOMAIN rec /\ rec[old[i]] = newRec[new[i]]

\* a flag that is left as it was by the repopulating call
DirtyKept(dirty, same) == dirty

\* a flag that is raised only when the recorded content differs
DirtyIfChanged(dirty, same) == dirty \/ ~same

\* updateDrawCommandBuffers(), last statement: primaryCmdBuffersDirty =
\* true, whatever the flag was and whatever was recorded
DirtyAfterPopulate(dirty, same) == TRUE

\* ---- updateDrawCommandBuffers(): at the end of the example's prepare(),
\* and in every iteration of renderLoop ----
UpdateDrawCommandBuffers ==
    /\ pc \in {"prepareDraw", "updateDraw"}
    /\ LET p == populateSubCommandBuffers(drawCmdBuffers, "draw", dumpster, nextHandle)
       IN  /\ drawCmdBuffers' = p.cmdBuffers
           /\ dumpster' = p.dumpster
           /\ cmdRec' = cmdRec @@ p.rec
           /\ nextHandle' = p.next
           /\ currentBuffer' = p.currentBuffer
           /\ primaryCmdBuffersDirty' =
                 DirtyAfterPopulate(primaryCmdBuffersDirty,
                                    SameContent(drawCmdBuffers, p.cmdBuffers,
                                                cmdRec, p.rec))
    /\ prepared' = (IF pc = "prepareDraw" THEN TRUE ELSE prepared)
    /\ pc' = (IF pc = "prepareDraw" THEN "loop" ELSE "render")
    /\ lastOp' = Op("updateDrawCommandBuffers", Range(drawCmdBuffers'),
                   populateSubCommandBuffers(drawCmdBuffers, "draw", dumpster,
                                             nextHandle).calls)
    /\ UNCHANGED <<SDLWindow, windowSize, swapChainSize, framebuffers, presents, framePhases, quit, enableTextOverlay, frames, currentImage,
                   primaryCmdBuffers, textCmdBuffers, pendingUpdates,
                   transferComplete, transferPending, recycler, imageFence,
                   submissions, cmdFreed, semDestroyed, doubleFreed,
                   retiredFences>>

\* ---- an example whose prepare() draws a frame before it has populated
\* the draw buffers (draw() and prepareFrame() are callable from the
\* derived class) ----
EarlyFrame ==
    /\ pc = "prepareDraw"
    /\ pc' = "prepareFrame"
    /\ lastOp' = Op("earlyFrame", {}, <<>>)
    /\ UNCHANGED <<SDLWindow, windowSize, swapChainSize, framebuffers, presents, framePhases, quit,
                   prepared, enableTextOverlay, frames, currentBuffer,
                   currentImage, primaryCmdBuffers, drawCmdBuffers,
                   textCmdBuffers, primaryCmdBuffersDirty, pendingUpdates,
                   transferComplete, transferPending, dumpster, recycler,
                   imageFence, submissions, cmdRec, cmdFreed, semDestroyed,
                   doubleFreed, retiredFences, nextHandle>>

\* a loop test that does not read quit
LoopTestIgnoresQuit ==
    /\ pc = "loop"
    /\ pc' = "input"
    /\ lastOp' = Op("loop", {}, <<>>)
    /\ UNCHANGED <<SDLWindow, windowSize, swapChainSize, framebuffers, presents,
                   framePhases, quit, prepared, enableTextOverlay, frames,
                   currentBuffer, currentImage, primaryCmdBuffers,
                   drawCmdBuffers, textCmdBuffers, primaryCmdBuffersDirty,
                   pendingUpdates, transferComplete, transferPending,
                   dumpster, recycler, imageFence, submissions, cmdRec,
                   cmdFreed, semDestroyed, doubleFreed, retiredFences,
                   nextHandle>>

\* ---- renderLoop: while (!quit) ----
LoopTest ==
    /\ pc = "loop"
    /\ pc' = (IF quit THEN "loopExit" ELSE "input")
    /\ lastOp' = Op("loop", {}, <<>>)
    /\ UNCHANGED <<SDLWindow, windowSize, swapChainSize, framebuffers, presents, framePhases, quit, prepared, enableTextOverlay, frames, currentBuffer,
                   currentImage, primaryCmdBuffers, drawCmdBuffers,
                   textCmdBuffers, primaryCmdBuffersDirty, pendingUpdates,
                   transferComplete, transferPending, dumpster, recycler,
                   imageFence, submissions, cmdRec, cmdFreed, semDestroyed,
                   doubleFreed, retiredFences, nextHandle>>

\* ---- updateKeyboardMouseInfo(): SDL_QUIT or escape sets quit ----
UpdateKeyboardMouseInfo ==
    /\ pc = "input"
    /\ \E q \in BOOLEAN :
          /\ (frames >= MaxFrames - 1) => q
          /\ quit' = (quit \/ q)
    /\ pc' = "update"
    /\ lastOp' = Op("updateKeyboardMouseInfo", {}, <<>>)
    /\ UNCHANGED <<SDLWindow, windowSize, swapChainSize, framebuffers, presents, framePhases, prepared, enableTextOverlay, frames, currentBuffer,
                   currentImage, primaryCmdBuffers, drawCmdBuffers,
                   textCmdBuffers, primaryCmdBuffersDirty, pendingUpdates,
                   transferComplete, transferPending, dumpster, recycler,
                   imageFence, submissions, cmdRec, cmdFreed, semDestroyed,
                   doubleFreed, retiredFences, nextHandle>>

\* ---- the pending-transfer queue: enqueue(update), from the example's
\* update hooks ----
Enqueue ==
    /\ pc = "update"
    /\ Len(pendingUpdates) < MaxUpdates
    /\ \E size \in UpdateSizes : pendingUpdates' = Append(pendingUpdates, size)
    /\ lastOp' = Op("enqueue", {}, <<>>)
    /\ UNCHANGED <<SDLWindow, windowSize, swapChainSize, framebuffers, presents, framePhases, pc, quit, prepared, enableTextOverlay, frames, currentBuffer,
                   currentImage, primaryCmdBuffers, drawCmdBuffers,
                   textCmdBuffers, primaryCmdBuffersDirty, transferComplete,
                   transferPending, dumpster, recycler, imageFence,
                   submissions, cmdRec, cmdFreed, semDestroyed, doubleFreed,
                   retiredFences, nextHandle>>

\* ---- update(0): updateView is always true, so viewChanged() runs; the
\* example's override calls updateTextOverlay() ----
Update ==
    /\ pc = "update"
    /\ LET u == updateTextOverlay(textCmdBuffers, dumpster, nextHandle,
                                  primaryCmdBuffersDirty, currentBuffer)
       IN  /\ textCmdBuffers' = u.cmdBuffers
           /\ dumpster' = u.dumpster
           /\ cmdRec' = cmdRec @@ u.rec
           /\ nextHandle' = u.next
           /\ currentBuffer' = u.currentBuffer
           /\ primaryCmdBuffersDirty' = u.dirty
           /\ lastOp' = Op("update", IF enableTextOverlay
                                     THEN Range(u.cmdBuffers) ELSE {}, <<>>)
    /\ pc' = "updateDraw"
    /\ UNCHANGED <<SDLWindow, windowSize, swapChainSize, framebuffers, presents, framePhases, quit, prepared, enableTextOverlay, frames, currentImage,
                   primaryCmdBuffers, drawCmdBuffers, pendingUpdates,
                   transferComplete, transferPending, recycler, imageFence,
                   submissions, cmdFreed, semDestroyed, doubleFreed,
                   retiredFences>>

\* ---- render(): the example's override calls draw() when prepared ----
Render ==
    /\ pc = "render"
    /\ pc' = (IF prepared THEN "prepareFrame" ELSE "loop")
    /\ lastOp' = Op("render", {}, <<>>)
    /\ UNCHANGED <<SDLWindow, windowSize, swapChainSize, framebuffers, presents, framePhases, quit, prepared, enableTextOverlay, frames, currentBuffer,
                   currentImage, primaryCmdBuffers, drawCmdBuffers,
                   textCmdBuffers, primaryCmdBuffersDirty, pendingUpdates,
                   transferComplete, transferPending, dumpster, recycler,
                   imageFence, submissions, cmdRec, cmdFreed, semDestroyed,
                   doubleFreed, retiredFences, nextHandle>>

\* a buildCommandBuffers that re-records the existing primaries in place,
\* without trashing them and without waiting for the queue
BuildInPlace ==
    IF drawCmdBuffers = <<>>
    THEN /\ pc' = "terminated"
         /\ lastOp' = Op("throw", {}, <<>>)
         /\ UNCHANGED <<primaryCmdBuffers, dumpster, cmdRec, nextHandle,
                        primaryCmdBuffersDirty>>
    ELSE LET alloc == (primaryCmdBuffers = <<>>)
             prim == IF alloc THEN FreshSeq(nextHandle, ImageCount)
                     ELSE primaryCmdBuffers
         IN  /\ primaryCmdBuffers' = prim
             /\ dumpster' = dumpster
             /\ nextHandle' = (IF alloc THEN nextHandle + ImageCount ELSE nextHandle)
             /\ cmdRec' = [c \in Range(prim) |->
                             PrimaryRec(CHOOSE i \in Images : prim[i + 1] = c,
                                        drawCmdBuffers, textCmdBuffers,
                                        enableTextOverlay)] @@ cmdRec
             /\ primaryCmdBuffersDirty' = FALSE
             /\ lastOp' = Op("buildCommandBuffers", Range(prim), <<>>)
             /\ pc' = "acquire"

\* a buildCommandBuffers without queue.waitIdle()
BuildNoWait ==
    IF drawCmdBuffers = <<>>
    THEN /\ pc' = "terminated"
         /\ lastOp' = Op("throw", {}, <<>>)
         /\ UNCHANGED <<primaryCmdBuffers, dumpster, cmdRec, nextHandle,
                        primaryCmdBuffersDirty>>
    ELSE LET t == trashCommandBuffers(primaryCmdBuffers, dumpster)
             alloc == (t.cmdBuffers = <<>>)
             prim == IF alloc THEN FreshSeq(nextHandle, ImageCount)
                     ELSE t.cmdBuffers
         IN  /\ primaryCmdBuffers' = prim
             /\ dumpster' = t.dumpster
             /\ nextHandle' = (IF alloc THEN nextHandle + ImageCount ELSE nextHandle)
             /\ cmdRec' = [c \in Range(prim) |->
                             PrimaryRec(CHOOSE i \in Images : prim[i + 1] = c,
                                        drawCmdBuffers, textCmdBuffers,
                                        enableTextOverlay)] @@ cmdRec
             /\ primaryCmdBuffersDirty' = FALSE
             /\ lastOp' = Op("buildCommandBuffers", Range(prim), <<>>)
             /\ pc' = "acquire"

\* a buildCommandBuffers without the check of the draw buffers
BuildNoCheck ==
    LET t == trashCommandBuffers(primaryCmdBuffers, dumpster)
        alloc == (t.cmdBuffers = <<>>)
        prim == IF alloc THEN FreshSeq(nextHandle, ImageCount)
                ELSE t.cmdBuffers
    IN  /\ QueueIdle
        /\ primaryCmdBuffers' = prim
        /\ dumpster' = t.dumpster
        /\ nextHandle' = (IF alloc THEN nextHandle + ImageCount ELSE nextHandle)
        /\ cmdRec' = [c \in Range(prim) |->
                        PrimaryRec(CHOOSE i \in Images : prim[i + 1] = c,
                                   drawCmdBuffers, textCmdBuffers,
                                   enableTextOverlay)] @@ cmdRec
        /\ primaryCmdBuffersDirty' = FALSE
        /\ lastOp' = Op("buildCommandBuffers", Range(prim), <<>>)
        /\ pc' = "acquire"

\* ---- buildCommandBuffers() ----
\* throws when the draw buffers are empty; otherwise trashes the primaries,
\* waits for the queue, allocates when the vector is empty and records one
\* primary per image
BuildCommandBuffers ==
    IF drawCmdBuffers = <<>>
    THEN /\ pc' = "terminated"
         /\ lastOp' = Op("throw", {}, <<>>)
         /\ UNCHANGED <<primaryCmdBuffers, dumpster, cmdRec, nextHandle,
                        primaryCmdBuffersDirty>>
    ELSE LET t == trashCommandBuffers(primaryCmdBuffers, dumpster)
             alloc == (t.cmdBuffers = <<>>)
             prim == IF alloc THEN FreshSeq(nextHandle, ImageCount)
                     ELSE t.cmdBuffers
         IN  /\ QueueIdle
             /\ primaryCmdBuffers' = prim
             /\ dumpster' = t.dumpster
             /\ nextHandle' = (IF alloc THEN nextHandle + ImageCount ELSE nextHandle)
             /\ cmdRec' = [c \in Range(prim) |->
                             PrimaryRec(CHOOSE i \in Images : prim[i + 1] = c,
                                        drawCmdBuffers, textCmdBuffers,
                                        enableTextOverlay)] @@ cmdRec
             /\ primaryCmdBuffersDirty' = FALSE
             /\ lastOp' = Op("buildCommandBuffers", Range(prim), <<>>)
             /\ pc' = "acquire"

\* a prepareFrame that rebuilds whether or not the primaries are dirty
PrepareFrameAlwaysBuild ==
    /\ pc = "prepareFrame"
    /\ frames' = frames + 1
    /\ BuildCommandBuffers
    /\ framePhases' = (IF lastOp'.op = "buildCommandBuffers"
                       THEN <<"Recording">> ELSE <<>>)
    /\ UNCHANGED <<SDLWindow, windowSize, swapChainSize, framebuffers, presents, currentBuffer,
                   currentImage, quit, prepared, enableTextOverlay,
                   drawCmdBuffers, textCmdBuffers, pendingUpdates,
                   transferComplete, transferPending, recycler, imageFence,
                   submissions, cmdFreed, semDestroyed, doubleFreed,
                   retiredFences>>

\* a prepareFrame that acquires the image before it rebuilds
PrepareFrameAcquireFirst ==
    /\ pc = "prepareFrame"
    /\ frames' = frames + 1
    /\ \E i \in Images : currentBuffer' = i /\ currentImage' = i
    /\ IF primaryCmdBuffersDirty
       THEN BuildCommandBuffers
       ELSE /\ pc' = "draw"
            /\ lastOp' = Op("prepareFrame", {}, <<>>)
            /\ UNCHANGED <<primaryCmdBuffers, dumpster, cmdRec, nextHandle,
                           primaryCmdBuffersDirty>>
    /\ framePhases' = (IF lastOp'.op = "buildCommandBuffers"
                       THEN <<"Acquiring", "Recording">> ELSE <<"Acquiring">>)
    /\ UNCHANGED <<SDLWindow, windowSize, swapChainSize, framebuffers, presents, quit, prepared,
                   enableTextOverlay, drawCmdBuffers, textCmdBuffers,
                   pendingUpdates, transferComplete, transferPending,
                   recycler, imageFence, submissions, cmdFreed, semDestroyed,
                   doubleFreed, retiredFences>>

\* a prepareFrame that waits for the queue whether or not it rebuilds
PrepareFrameWaitAlways ==
    /\ pc = "prepareFrame"
    /\ QueueIdle
    /\ frames' = frames + 1
    /\ IF primaryCmdBuffersDirty
       THEN BuildCommandBuffers
       ELSE /\ pc' = "acquire"
            /\ lastOp' = Op("prepareFrame", {}, <<>>)
            /\ UNCHANGED <<primaryCmdBuffers, dumpster, cmdRec, nextHandle,
                           primaryCmdBuffersDirty>>
    /\ framePhases' = (IF lastOp'.op = "buildCommandBuffers"
                       THEN <<"Recording">> ELSE <<>>)
    /\ UNCHANGED <<SDLWindow, windowSize, swapChainSize, framebuffers, presents, currentBuffer,
                   currentImage, quit, prepared, enableTextOverlay,
                   drawCmdBuffers, textCmdBuffers, pendingUpdates,
                   transferComplete, transferPending, recycler, imageFence,
                   submissions, cmdFreed, semDestroyed, doubleFreed,
                   retiredFences>>

\* ---- prepareFrame(), first statement: rebuild the primaries when dirty ----
PrepareFrame ==
    /\ pc = "prepareFrame"
    /\ frames' = frames + 1
    /\ IF primaryCmdBuffersDirty
       THEN BuildCommandBuffers
       ELSE /\ pc' = "acquire"
            /\ lastOp' = Op("prepareFrame", {}, <<>>)
            /\ UNCHANGED <<primaryCmdBuffers, dumpster, cmdRec, nextHandle,
                           primaryCmdBuffersDirty>>
    /\ framePhases' = (IF lastOp'.op = "buildCommandBuffers"
                       THEN <<"Recording">> ELSE <<>>)
    /\ UNCHANGED <<SDLWindow, windowSize, swapChainSize, framebuffers, presents, currentBuffer,
                   currentImage, quit, prepared, enableTextOverlay, drawCmdBuffers,
                   textCmdBuffers, pendingUpdates, transferComplete,
                   transferPending, recycler, imageFence, submissions,
                   cmdFreed, semDestroyed, doubleFreed, retiredFences>>

\* the outcomes of swapChain.acquireNextImage: an image index, or the
\* out-of-date failure once the surface no longer has the swapchain's extent
\* (an implementation may also keep handing out images of the old swapchain)
AcquireOutcomes ==
    Images \cup (IF swapChainSize # windowSize THEN {OutOfDate} ELSE {})

\* an acquisition whose result is not stored in currentBuffer, which keeps
\* the 0 that populateSubCommandBuffers left
AcquireKeepsCurrentBuffer ==
    /\ pc = "acquire"
    /\ \E r \in AcquireOutcomes :
          IF r = OutOfDate
          THEN /\ pc' = "terminated"
               /\ lastOp' = Op("outOfDate", {}, <<>>)
               /\ UNCHANGED <<currentBuffer, currentImage, framePhases>>
          ELSE /\ currentBuffer' = currentBuffer
               /\ currentImage' = r
               /\ pc' = "draw"
               /\ framePhases' = Append(framePhases, "Acquiring")
               /\ lastOp' = Op("acquireNextImage", {}, <<>>)
    /\ UNCHANGED <<SDLWindow, windowSize, swapChainSize, framebuffers, presents, quit, prepared,
                   enableTextOverlay, frames, primaryCmdBuffers,
                   drawCmdBuffers, textCmdBuffers, primaryCmdBuffersDirty,
                   pendingUpdates, transferComplete, transferPending,
                   dumpster, recycler, imageFence, submissions, cmdRec,
                   cmdFreed, semDestroyed, doubleFreed, retiredFences,
                   nextHandle>>

\* ---- prepareFrame(), second statement:
\* currentBuffer = swapChain.acquireNextImage(semaphores.acquireComplete);
\* the failure is an exception that no caller up to main() catches ----
AcquireNextImage ==
    /\ pc = "acquire"
    /\ \E r \in AcquireOutcomes :
          IF r = OutOfDate
          THEN /\ pc' = "terminated"
               /\ lastOp' = Op("outOfDate", {}, <<>>)
               /\ UNCHANGED <<currentBuffer, currentImage, framePhases>>
          ELSE /\ currentBuffer' = r
               /\ currentImage' = r
               /\ pc' = "draw"
               /\ framePhases' = Append(framePhases, "Acquiring")
               /\ lastOp' = Op("acquireNextImage", {}, <<>>)
    /\ UNCHANGED <<SDLWindow, windowSize, swapChainSize, framebuffers, presents, quit, prepared,
                   enableTextOverlay, frames, primaryCmdBuffers,
                   drawCmdBuffers, textCmdBuffers, primaryCmdBuffersDirty,
                   pendingUpdates, transferComplete, transferPending,
                   dumpster, recycler, imageFence, submissions, cmdRec,
                   cmdFreed, semDestroyed, doubleFreed, retiredFences,
                   nextHandle>>

\* ---- swapChain.getSubmitFence(): wait for the fence in the slot of the
\* current image, if any, then put a new unsignaled fence there ----
SubmitFenceReady ==
    \/ imageFence[currentImage] = NullHandle
    \/ FenceSignaled(imageFence[currentImage])

\* a wait list that forgets the transfer-complete semaphore
WaitListAcquireOnly(tc) ==
    <<[sem |-> AcquireComplete, stage |-> "submitPipelineStages"]>>

\* the wait list of the main submission: acquire-complete, then
\* transfer-complete when one is set
WaitList(tc) ==
    <<[sem |-> AcquireComplete, stage |-> "submitPipelineStages"]>>
    \o (IF tc # NullHandle THEN <<[sem |-> tc, stage |-> "eTransfer"]>> ELSE <<>>)

\* a signal list that leaves render-complete out
SignalListPendingOnly(tp) == IF tp # NullHandle THEN <<tp>> ELSE <<>>

\* a signal list that leaves the transfer-pending semaphore out
SignalListRenderOnly(tp) == <<RenderComplete>>

\* the signal list of the main submission: render-complete, then the
\* transfer-pending semaphore when updates are queued
SignalList(tp) ==
    <<RenderComplete>> \o (IF tp # NullHandle THEN <<tp>> ELSE <<>>)

\* an early return taken in every frame
NothingToSubmitAlways(prims) == TRUE

\* an early return taken when there are primaries
NothingToSubmitInverted(prims) == Len(prims) >= 1

\* if (primaryCmdBuffers.size() < 1) return;
NothingToSubmit(prims) == Len(prims) < 1

\* a submission that always takes the first primary
SubmittedPrimaryFirst(prims, cur) == prims[1]

\* submitInfo.pCommandBuffers = &primaryCmdBuffers[currentBuffer]
SubmittedPrimary(prims, cur) == prims[cur + 1]

\* ---- drawCurrentCommandBuffer(), up to queue.submit ----
DrawCurrentCommandBuffer ==
    /\ pc = "draw"
    /\ SubmitFenceReady
    /\ LET fence == nextHandle
           fenceIndex == currentBuffer
           d1 == Append(dumpster, Closure("clearSubmitFence", <<fenceIndex>>))
           d2 == IF transferComplete # NullHandle
                 THEN Append(d1, Closure("destroySemaphore", <<transferComplete>>))
                 ELSE d1
           e == emptyDumpster(fence, d2, recycler)
           tp == IF pendingUpdates # <<>> THEN nextHandle + 1 ELSE NullHandle
       IN  /\ imageFence' = [imageFence EXCEPT ![currentImage] = fence]
           /\ transferComplete' = NullHandle
           /\ dumpster' = e.dumpster
           /\ recycler' = e.recycler
           /\ transferPending' = tp
           /\ nextHandle' = nextHandle + (IF tp # NullHandle THEN 2 ELSE 1)
           /\ IF NothingToSubmit(primaryCmdBuffers)
              THEN /\ pc' = "present"
                   /\ UNCHANGED submissions
              ELSE /\ pc' = "transfer"
                   /\ submissions' = Append(submissions,
                         [kind |-> "main",
                          cmd |-> SubmittedPrimary(primaryCmdBuffers, currentBuffer),
                          waits |-> WaitList(transferComplete),
                          signals |-> SignalList(tp),
                          fence |-> fence,
                          st |-> "queued",
                          frame |-> frames,
                          image |-> currentBuffer])
    /\ framePhases' = (IF NothingToSubmit(primaryCmdBuffers) THEN framePhases
                       ELSE Append(framePhases, "Submitting"))
    /\ lastOp' = Op("drawCurrentCommandBuffer", {}, <<>>)
    /\ UNCHANGED <<SDLWindow, windowSize, swapChainSize, framebuffers, presents, quit, prepared, enableTextOverlay, frames, currentBuffer,
                   currentImage, primaryCmdBuffers, drawCmdBuffers,
                   textCmdBuffers, primaryCmdBuffersDirty, pendingUpdates,
                   cmdRec, cmdFreed, semDestroyed, doubleFreed, retiredFences>>

\* a reclaim entry guarded by the fence of the frame's main submission (the
\* entry emptyDumpster has just queued) instead of the transfer fence
TransferReclaimFrameFence(r, transferFence, tp, transferCmdBuffer) ==
    Append(r, [fence |-> r[Len(r)].fence,
               lambda |-> <<Closure("destroySemaphore", <<tp>>),
                            Closure("freeCommandBuffers", <<transferCmdBuffer>>)>>])

\* context.recycler.push({transferFence, ...}): the pending semaphore and
\* the one-shot command buffer are released once the transfer fence signals
TransferReclaim(r, transferFence, tp, transferCmdBuffer) ==
    Append(r, [fence |-> transferFence,
               lambda |-> <<Closure("destroySemaphore", <<tp>>),
                            Closure("freeCommandBuffers", <<transferCmdBuffer>>)>>])

\* ---- executePendingTransfers(transferPending) ----
ExecutePendingTransfers ==
    /\ pc = "transfer"
    /\ IF pendingUpdates # <<>>
       THEN LET transferFence == nextHandle
                tc == nextHandle + 1
                transferCmdBuffer == nextHandle + 2
            IN  /\ transferComplete' = tc
                /\ nextHandle' = nextHandle + 3
                /\ cmdRec' = (transferCmdBuffer :> TransferRec(pendingUpdates)) @@ cmdRec
                /\ submissions' = Append(submissions,
                      [kind |-> "transfer",
                       cmd |-> transferCmdBuffer,
                       waits |-> <<[sem |-> transferPending, stage |-> "eAllCommands"]>>,
                       signals |-> <<tc>>,
                       fence |-> transferFence,
                       st |-> "queued",
                       frame |-> frames,
                       image |-> currentBuffer])
                /\ recycler' = TransferReclaim(recycler, transferFence,
                                                transferPending, transferCmdBuffer)
                /\ pendingUpdates' = <<>>
                /\ lastOp' = Op("executePendingTransfers", {}, <<>>)
       ELSE /\ lastOp' = Op("executePendingTransfers", {}, <<>>)
            /\ UNCHANGED <<transferComplete, nextHandle, cmdRec, submissions,
                           recycler, pendingUpdates>>
    /\ pc' = "recycle"
    /\ UNCHANGED <<SDLWindow, windowSize, swapChainSize, framebuffers, presents, framePhases, quit, prepared, enableTextOverlay, frames, currentBuffer,
                   currentImage, primaryCmdBuffers, drawCmdBuffers,
                   textCmdBuffers, primaryCmdBuffersDirty, transferPending,
                   dumpster, imageFence, cmdFreed, semDestroyed, doubleFreed,
                   retiredFences>>

\* ---- context.recycle(), the last statement of drawCurrentCommandBuffer ----
\* every entry whose fence reads signaled is run, in queue order, and leaves
\* the queue; the others stay
Recycle ==
    /\ pc = "recycle"
    /\ LET elig == SelectSeq(recycler, Eligible)
           rest == SelectSeq(recycler, LAMBDA e : ~Eligible(e))
           h == RunEntries(elig, Heap)
       IN  /\ recycler' = rest
           /\ imageFence' = h.imageFence
           /\ semDestroyed' = h.semDestroyed
           /\ cmdFreed' = h.cmdFreed
           /\ doubleFreed' = h.doubleFreed
           /\ cmdRec' = Live(cmdRec, h.cmdFreed)
           /\ retiredFences' = retiredFences \cup {e.fence : e \in Range(elig)}
           /\ lastOp' = Op("recycle", {}, [i \in 1..Len(elig) |-> elig[i].fence])
    /\ pc' = "present"
    /\ UNCHANGED <<SDLWindow, windowSize, swapChainSize, framebuffers, presents, framePhases, quit, prepared, enableTextOverlay, frames, currentBuffer,
                   currentImage, primaryCmdBuffers, drawCmdBuffers,
                   textCmdBuffers, primaryCmdBuffersDirty, pendingUpdates,
                   transferComplete, transferPending, dumpster, submissions,
                   nextHandle>>

\* ---- submitFrame(): queuePresent waiting on render-complete ----
SubmitFrame ==
    /\ pc = "present"
    /\ pc' = "rendered"
    /\ presents' = Append(presents, [frame |-> frames, image |-> currentBuffer,
                                     wait |-> RenderComplete])
    /\ framePhases' = Append(framePhases, "Presenting")
    /\ lastOp' = Op("submitFrame", {}, <<>>)
    /\ UNCHANGED <<SDLWindow, windowSize, swapChainSize, framebuffers, quit, prepared, enableTextOverlay, frames, currentBuffer,
                   currentImage, primaryCmdBuffers, drawCmdBuffers,
                   textCmdBuffers, primaryCmdBuffersDirty, pendingUpdates,
                   transferComplete, transferPending, dumpster, recycler,
                   imageFence, submissions, cmdRec, cmdFreed, semDestroyed,
                   doubleFreed, retiredFences, nextHandle>>

\* ---- render() is virtual: after one draw() the override returns ... ----
RenderReturn ==
    /\ pc = "rendered"
    /\ pc' = "loop"
    /\ framePhases' = <<>>
    /\ lastOp' = Op("renderReturn", {}, <<>>)
    /\ UNCHANGED <<SDLWindow, windowSize, swapChainSize, framebuffers, presents, quit, prepared, enableTextOverlay, frames, currentBuffer,
                   currentImage, primaryCmdBuffers, drawCmdBuffers,
                   textCmdBuffers, primaryCmdBuffersDirty, pendingUpdates,
                   transferComplete, transferPending, dumpster, recycler,
                   imageFence, submissions, cmdRec, cmdFreed, semDestroyed,
                   doubleFreed, retiredFences, nextHandle>>

\* ---- ... or calls draw() again, a frame whose secondaries were not
\* repopulated since the last rebuild ----
RenderAgain ==
    /\ pc = "rendered"
    /\ frames < MaxFrames
    /\ pc' = "prepareFrame"
    /\ framePhases' = <<>>
    /\ lastOp' = Op("renderAgain", {}, <<>>)
    /\ UNCHANGED <<SDLWindow, windowSize, swapChainSize, framebuffers, presents, quit, prepared, enableTextOverlay, frames, currentBuffer,
                   currentImage, primaryCmdBuffers, drawCmdBuffers,
                   textCmdBuffers, primaryCmdBuffersDirty, pendingUpdates,
                   transferComplete, transferPending, dumpster, recycler,
                   imageFence, submissions, cmdRec, cmdFreed, semDestroyed,
                   doubleFreed, retiredFences, nextHandle>>

\* ---- renderLoop, after the loop: SDL_DestroyWindow; SDL_Quit ----
RenderLoopExit ==
    /\ pc = "loopExit"
    /\ SDLWindow' = "destroyed"
    /\ pc' = "waitIdle"
    /\ lastOp' = Op("renderLoopExit", {}, <<>>)
    /\ UNCHANGED <<windowSize, swapChainSize, framebuffers, presents, framePhases, quit, prepared,
                   enableTextOverlay, frames, currentBuffer, currentImage,
                   primaryCmdBuffers, drawCmdBuffers, textCmdBuffers,
                   primaryCmdBuffersDirty, pendingUpdates, transferComplete,
                   transferPending, dumpster, recycler, imageFence,
                   submissions, cmdRec, cmdFreed, semDestroyed, doubleFreed,
                   retiredFences, nextHandle>>

\* ---- run(), after renderLoop: queue.waitIdle(); device.waitIdle() ----
RunWaitIdle ==
    /\ pc = "waitIdle"
    /\ QueueIdle
    /\ pc' = "dtor"
    /\ lastOp' = Op("waitIdle", {}, <<>>)
    /\ UNCHANGED <<SDLWindow, windowSize, swapChainSize, framebuffers, presents, framePhases, quit, prepared, enableTextOverlay, frames, currentBuffer,
                   currentImage, primaryCmdBuffers, drawCmdBuffers,
                   textCmdBuffers, primaryCmdBuffersDirty, pendingUpdates,
                   transferComplete, transferPending, dumpster, recycler,
                   imageFence, submissions, cmdRec, cmdFreed, semDestroyed,
                   doubleFreed, retiredFences, nextHandle>>

\* ---- context.destroyContext(): what the dumpster and the recycler still
\* hold is released ----
destroyContext(h) == RunEntries(recycler, RunLambda(dumpster, h))

\* the semaphores ~vulkanApp() destroys
DestructorSemaphores == <<AcquireComplete, RenderComplete>>

\* ---- ~vulkanApp() ----
Destructor ==
    /\ pc = "dtor"
    /\ LET h1 == FreeNow(primaryCmdBuffers, Heap)
           h2 == FreeNow(drawCmdBuffers, h1)
           h3 == FreeNow(textCmdBuffers, h2)
           h4 == RunLambda([i \in 1..Len(DestructorSemaphores) |->
                              Closure("destroySemaphore", <<DestructorSemaphores[i]>>)], h3)
           h5 == destroyContext(h4)
       IN  /\ imageFence' = h5.imageFence
           /\ semDestroyed' = h5.semDestroyed
           /\ cmdFreed' = h5.cmdFreed
           /\ doubleFreed' = h5.doubleFreed
           /\ cmdRec' = Live(cmdRec, h5.cmdFreed)
    /\ primaryCmdBuffers' = <<>>
    /\ drawCmdBuffers' = <<>>
    /\ textCmdBuffers' = <<>>
    /\ dumpster' = <<>>
    /\ recycler' = <<>>
    /\ pc' = "done"
    /\ lastOp' = Op("destructor", {}, <<>>)
    /\ UNCHANGED <<SDLWindow, windowSize, swapChainSize, framebuffers, presents, framePhases, quit, prepared, enableTextOverlay, frames, currentBuffer,
                   currentImage, primaryCmdBuffersDirty, pendingUpdates,
                   transferComplete, transferPending, submissions,
                   retiredFences, nextHandle>>

\* ---- the GPU ----
\* submissions begin executing in submission order; a semaphore wait holds
\* back only the commands its stage mask covers
GpuStart ==
    \E k \in 1..Len(submissions) :
        /\ submissions[k].st = "queued"
        /\ \A j \in 1..(k - 1) : submissions[j].st # "queued"
        /\ \A i \in 1..Len(submissions[k].waits) :
              StageCovers(submissions[k].waits[i].stage, submissions[k].kind)
                 => SemSignaled(submissions[k].waits[i].sem)
        /\ submissions' = [submissions EXCEPT ![k].st = "running"]
        /\ UNCHANGED <<SDLWindow, windowSize, swapChainSize, framebuffers, presents, framePhases, pc, quit, prepared, enableTextOverlay, frames,
                       currentBuffer, currentImage, primaryCmdBuffers,
                       drawCmdBuffers, textCmdBuffers, primaryCmdBuffersDirty,
                       pendingUpdates, transferComplete, transferPending,
                       dumpster, recycler, imageFence, cmdRec, cmdFreed,
                       semDestroyed, doubleFreed, retiredFences, nextHandle,
                       lastOp>>

\* a submission completes (its fence and semaphores signal) after every
\* earlier submission and after all its semaphore waits
GpuComplete ==
    \E k \in 1..Len(submissions) :
        /\ submissions[k].st = "running"
        /\ \A j \in 1..(k - 1) : submissions[j].st = "done"
        /\ \A i \in 1..Len(submissions[k].waits) :
              SemSignaled(submissions[k].waits[i].sem)
        /\ submissions' = [submissions EXCEPT ![k].st = "done"]
        /\ UNCHANGED <<SDLWindow, windowSize, swapChainSize, framebuffers, presents, framePhases, pc, quit, prepared, enableTextOverlay, frames,
                       currentBuffer, currentImage, primaryCmdBuffers,
                       drawCmdBuffers, textCmdBuffers, primaryCmdBuffersDirty,
                       pendingUpdates, transferComplete, transferPending,
                       dumpster, recycler, imageFence, cmdRec, cmdFreed,
                       semDestroyed, doubleFreed, retiredFences, nextHandle,
                       lastOp>>

\* ---- the user resizes the window; the event is in the queue that
\* updateKeyboardMouseInfo polls, which has no branch for it ----
WindowResized ==
    /\ pc = "input"
    /\ windowSize < InitialExtent + MaxResizes
    /\ windowSize' = windowSize + 1
    /\ UNCHANGED <<SDLWindow, swapChainSize, framebuffers, presents, framePhases, pc, quit, prepared,
                   enableTextOverlay, frames, currentBuffer, currentImage,
                   primaryCmdBuffers, drawCmdBuffers, textCmdBuffers,
                   primaryCmdBuffersDirty, pendingUpdates, transferComplete,
                   transferPending, dumpster, recycler, imageFence,
                   submissions, cmdRec, cmdFreed, semDestroyed, doubleFreed,
                   retiredFences, nextHandle, lastOp>>

Next ==
    \/ Prepare
    \/ EarlyFrame
    \/ UpdateDrawCommandBuffers
    \/ LoopTest
    \/ UpdateKeyboardMouseInfo
    \/ Enqueue
    \/ Update
    \/ Render
    \/ PrepareFrame
    \/ AcquireNextImage
    \/ DrawCurrentCommandBuffer
    \/ ExecutePendingTransfers
    \/ Recycle
    \/ SubmitFrame
    \/ RenderReturn
    \/ RenderAgain
    \/ RenderLoopExit
    \/ RunWaitIdle
    \/ Destructor
    \/ GpuStart
    \/ GpuComplete

Spec == Init /\ [][Next]_vars

\* the same program with a window that the user may resize
NextResize == Next \/ WindowResized

SpecResize == Init /\ [][NextResize]_vars

(***************************************************************************)
(* Properties                                                              *)
(***************************************************************************)

\* the handles a reclaim entry releases
EntryResources(e) ==
    UNION {Range(c.arg) : c \in {d \in Range(e.lambda) : d.kind # "clearSubmitFence"}}

Released == cmdFreed \cup semDestroyed

\* C1: deferred destruction.  A step of recycle() leaves every reclaim entry
\* whose fence is not signaled in the queue, in order, and releases none of
\* the handles such an entry holds: a cleanup runs only when the fence that
\* emptyDumpster paired it with reads signaled.
C1_DeferredDestruction ==
    [][(pc = "recycle" /\ pc' = "present") =>
          /\ SelectSeq(recycler, LAMBDA e : ~FenceSignaled(e.fence)) = recycler'
          /\ \A i \in 1..Len(recycler) :
                ~FenceSignaled(recycler[i].fence) =>
                    EntryResources(recycler[i]) \cap Released'
                        = EntryResources(recycler[i]) \cap Released]_vars

\* C1 witness: recycle() has run an entry whose fence had signaled and freed
\* trashed command buffers, while an entry with an unsignaled fence stayed
C1_Witness ==
    /\ lastOp.op = "recycle"
    /\ lastOp.ran # <<>>
    /\ cmdFreed # {}
    /\ \E i \in 1..Len(recycler) : ~FenceSignaled(recycler[i].fence)

\* C2: no command buffer is reset or re-recorded by buildCommandBuffers or
\* populateSubCommandBuffers while a submission that has not completed
\* references it (directly, or through executeCommands of a primary).
C2_NoResetWhilePending == lastOp.reset \cap PendingCmds = {}

\* C2 witness: the primaries have been re-recorded by a rebuild that was not
\* the first, after earlier frames were submitted
C2_Witness ==
    /\ lastOp.op = "buildCommandBuffers"
    /\ lastOp.reset # {}
    /\ Len(submissions) >= 2

\* C4: buildCommandBuffers records the primaries only with the queue idle:
\* every submission made so far has completed, and none is made before the
\* recording is finished.
C4_RecordAfterQueueIdle == (lastOp.op = "buildCommandBuffers") => QueueIdle

\* C4 witness: a rebuild took place after at least one frame was submitted
C4_Witness ==
    /\ lastOp.op = "buildCommandBuffers"
    /\ submissions # <<>>
    /\ pc = "acquire"

\* the main submissions, by position in the queue
MainSubmissions == {k \in 1..Len(submissions) : submissions[k].kind = "main"}

\* C3: per-image fence discipline.  When a frame submits the primary buffer
\* of image i, every earlier submission made for image i has completed (its
\* fence was waited for in getSubmitFence or seen signaled by recycle), in
\* rebuilt and in not rebuilt frames alike.
C3_PerImageFenceDiscipline ==
    \A j, k \in MainSubmissions :
        (j < k /\ submissions[j].image = submissions[k].image)
            => submissions[j].st = "done"

\* the transfer submissions, by position in the queue
TransferSubmissions == {k \in 1..Len(submissions) : submissions[k].kind = "transfer"}

\* the transfer submissions flushed in frame f
FlushesOf(f) == {j \in TransferSubmissions : submissions[j].frame = f}

\* C5: semaphore chaining.  The wait list of a frame's main submission is
\* <<acquire-complete, transfer-complete>> exactly when the previous frame
\* flushed transfers (the second entry being the semaphore that flush
\* created), and <<acquire-complete>> otherwise; no transfer-complete
\* semaphore is waited on by two submissions.
C5_SemaphoreChaining ==
    /\ \A k \in MainSubmissions :
          LET s == submissions[k]
              prev == FlushesOf(s.frame - 1)
          IN  /\ s.waits[1].sem = AcquireComplete
              /\ IF prev # {}
                 THEN /\ Len(s.waits) = 2
                      /\ \A j \in prev : s.waits[2].sem = submissions[j].signals[1]
                 ELSE Len(s.waits) = 1
    /\ \A j, k \in MainSubmissions :
          (j # k /\ Len(submissions[j].waits) = 2 /\ Len(submissions[k].waits) = 2)
              => submissions[j].waits[2].sem # submissions[k].waits[2].sem

\* C5 witness: a frame after a flush waits on two semaphores, and a later
\* frame, after a frame without a flush, waits on one
C5_Witness ==
    \E j, k \in MainSubmissions :
        /\ j < k
        /\ Len(submissions[j].waits) = 2
        /\ Len(submissions[k].waits) = 1

\* C6: transfer visibility.  When the main submission of frame N+1 has begun
\* executing its draw commands, the transfer submission flushed in frame N
\* has completed.
C6_TransferVisibility ==
    \A k \in MainSubmissions :
        \A j \in FlushesOf(submissions[k].frame - 1) :
            submissions[k].st # "queued" => submissions[j].st = "done"

\* the updates a recording holds, in recording order
UpdatesIn(rec) ==
    LET ub == SelectSeq(rec, LAMBDA c : c.cmd = "updateBuffer")
    IN  [i \in 1..Len(ub) |-> ub[i].a]

\* C7: pending-transfer flush.  A call of executePendingTransfers with N >= 1
\* queued updates adds exactly one submission, of one freshly allocated
\* command buffer that holds the N updates as updateBuffer commands in
\* enqueue order, and leaves pendingUpdates empty; with N = 0 it allocates
\* nothing, submits nothing and leaves semaphores.transferComplete, the
\* recordings and the reclaim queue as they were.  No transfer command buffer
\* is submitted twice.
C7_FlushRecordsAll ==
    /\ [](\A j, k \in 1..Len(submissions) :
             (j # k /\ submissions[j].kind = "transfer")
                 => submissions[j].cmd # submissions[k].cmd)
    /\ [][(pc = "transfer" /\ pc' = "recycle") =>
             IF pendingUpdates # <<>>
             THEN /\ Len(submissions') = Len(submissions) + 1
                  /\ SubSeq(submissions', 1, Len(submissions)) = submissions
                  /\ LET t == submissions'[Len(submissions')]
                     IN  /\ t.kind = "transfer"
                         /\ t.cmd \notin DOMAIN cmdRec
                         /\ DOMAIN cmdRec' = (DOMAIN cmdRec) \cup {t.cmd}
                         /\ UpdatesIn(cmdRec'[t.cmd]) = pendingUpdates
                  /\ pendingUpdates' = <<>>
             ELSE /\ submissions' = submissions
                  /\ cmdRec' = cmdRec
                  /\ nextHandle' = nextHandle
                  /\ recycler' = recycler
                  /\ transferComplete' = transferComplete
                  /\ pendingUpdates' = <<>>]_vars

\* C7 witness: a flush has just recorded and submitted two updates of
\* different sizes
C7_Witness ==
    /\ lastOp.op = "executePendingTransfers"
    /\ pendingUpdates = <<>>
    /\ submissions # <<>>
    /\ LET t == submissions[Len(submissions)]
       IN  /\ t.kind = "transfer"
           /\ t.cmd \in DOMAIN cmdRec
           /\ Len(UpdatesIn(cmdRec[t.cmd])) = 2
           /\ UpdatesIn(cmdRec[t.cmd])[1] # UpdatesIn(cmdRec[t.cmd])[2]

\* the semaphores a submission waits on
WaitSems(sub) == {sub.waits[i].sem : i \in 1..Len(sub.waits)}

\* semaphore x is signaled by submission k only, and waited on by
\* submission w only (w = 0: by none so far, or by one later submission)
FreshHandshake(x, k, w) ==
    /\ x \notin {NullHandle, AcquireComplete, RenderComplete}
    /\ \A m \in 1..Len(submissions) :
          /\ (m # k => x \notin Range(submissions[m].signals))
          /\ ((w # 0 /\ m # w) => x \notin WaitSems(submissions[m]))

\* C8: transfer-pending handshake.  A main submission made while updates are
\* queued signals <<render-complete, transfer-pending>> with a new
\* transfer-pending semaphore; the transfer submission of that frame is the
\* next submission, waits on exactly that semaphore for all commands and
\* signals one new transfer-complete semaphore, and has not begun executing
\* unless the main submission has completed.  A main submission made while no
\* updates are queued signals <<render-complete>> and its frame submits no
\* transfer.
C8_TransferPendingHandshake ==
    \A k \in MainSubmissions :
        LET s == submissions[k]
            fl == FlushesOf(s.frame)
            flushing == (pc = "transfer" /\ k = Len(submissions))
        IN  /\ s.signals[1] = RenderComplete
            /\ flushing =>
                  /\ (Len(s.signals) = 2) <=> (pendingUpdates # <<>>)
                  /\ Len(s.signals) = 2 => s.signals[2] = transferPending
                  /\ fl = {}
            /\ Len(s.signals) = 1 => fl = {}
            /\ Len(s.signals) \in {1, 2}
            /\ Len(s.signals) = 2 =>
                  /\ FreshHandshake(s.signals[2], k, IF flushing THEN 0 ELSE k + 1)
                  /\ ~flushing =>
                        /\ fl = {k + 1}
                        /\ LET t == submissions[k + 1]
                           IN  /\ t.waits = <<[sem |-> s.signals[2],
                                               stage |-> "eAllCommands"]>>
                               /\ Len(t.signals) = 1
                               /\ t.signals[1] # s.signals[2]
                               /\ FreshHandshake(t.signals[1], k + 1, 0)
                               /\ t.st # "queued" => s.st = "done"

\* C8 witness: a transfer submission is executing after the main submission
\* of its frame completed, and an earlier frame made no transfer
C8_Witness ==
    \E k \in MainSubmissions :
        /\ Len(submissions[k].signals) = 2
        /\ k + 1 \in TransferSubmissions
        /\ submissions[k + 1].st = "running"
        /\ \E j \in MainSubmissions : j < k /\ Len(submissions[j].signals) = 1

\* the handles the closures of the dumpster would release
DumpsterResources ==
    UNION {Range(c.arg) : c \in {d \in Range(dumpster) : d.kind # "clearSubmitFence"}}

\* C9: reclamation of a flush.  The one-shot command buffer and the
\* transfer-pending semaphore of a transfer submission are held by the
\* reclaim entry of its transfer fence and by nothing else; while that entry
\* is queued neither is released; once it is gone both are released, the
\* transfer has completed, and neither was released twice.
C9_TransferReclaimedAfterFence ==
    \A j \in TransferSubmissions :
        LET t == submissions[j]
            tp == t.waits[1].sem
            mine == {i \in 1..Len(recycler) : recycler[i].fence = t.fence}
        IN  /\ Cardinality(mine) <= 1
            /\ \A i \in 1..Len(recycler) :
                  IF i \in mine
                  THEN EntryResources(recycler[i]) = {tp, t.cmd}
                  ELSE EntryResources(recycler[i]) \cap {tp, t.cmd} = {}
            /\ DumpsterResources \cap {tp, t.cmd} = {}
            /\ mine # {} => {tp, t.cmd} \cap Released = {}
            /\ mine = {} => ({tp, t.cmd} \subseteq Released /\ t.st = "done")
            /\ {tp, t.cmd} \cap doubleFreed = {}

\* C9 witness: recycle() has just run the entry of a transfer fence and
\* released the transfer command buffer and the pending semaphore
C9_Witness ==
    /\ lastOp.op = "recycle"
    /\ \E j \in TransferSubmissions :
          /\ \E i \in 1..Len(lastOp.ran) : lastOp.ran[i] = submissions[j].fence
          /\ submissions[j].cmd \in cmdFreed
          /\ submissions[j].waits[1].sem \in semDestroyed

\* C10: every transfer-complete semaphore is destroyed again.  It is
\* destroyed only after the submission that waits on it has completed, and
\* once the destructor has run (pc = "done") no transfer-complete semaphore
\* created by a flush is left undestroyed.
C10_TransferCompleteDestroyed ==
    \A j \in TransferSubmissions :
        LET tc == submissions[j].signals[1]
        IN  /\ tc \in semDestroyed =>
                  \E k \in MainSubmissions :
                      /\ tc \in WaitSems(submissions[k])
                      /\ submissions[k].st = "done"
            /\ pc = "done" => tc \in semDestroyed


\* the primaries are one per image and hold what buildCommandBuffers records
\* from the current secondaries
PrimariesCurrent ==
    /\ Len(primaryCmdBuffers) = ImageCount
    /\ \A i \in Images :
          /\ primaryCmdBuffers[i + 1] \in DOMAIN cmdRec
          /\ cmdRec[primaryCmdBuffers[i + 1]] =
                PrimaryRec(i, drawCmdBuffers, textCmdBuffers, enableTextOverlay)

\* the primaries and what they hold are the same before and after the step
PrimariesUntouched ==
    /\ primaryCmdBuffers' = primaryCmdBuffers
    /\ \A c \in Range(primaryCmdBuffers) :
          (c \in DOMAIN cmdRec /\ c \in DOMAIN cmdRec') => cmdRec'[c] = cmdRec[c]

\* C11: lazy rebuild.  After updateDrawCommandBuffers, and after
\* updateTextOverlay with the overlay enabled, the primaries are marked
\* dirty; when prepareFrame comes to acquireNextImage the flag is down and
\* the primary of every image index holds a recording of the current
\* secondaries; and while the flag is up no step other than prepareFrame
\* lowers it or touches the primaries (the destructor frees them).
C11_LazyRebuild ==
    /\ [](/\ (lastOp.op = "updateDrawCommandBuffers" => primaryCmdBuffersDirty)
          /\ ((lastOp.op \in {"update", "prepare"} /\ enableTextOverlay)
                 => primaryCmdBuffersDirty)
          /\ (pc = "acquire" => (~primaryCmdBuffersDirty /\ PrimariesCurrent)))
    /\ [][(primaryCmdBuffersDirty /\ pc # "prepareFrame")
             => (primaryCmdBuffersDirty' /\ (PrimariesUntouched \/ pc = "dtor"))]_vars

\* C11 witness: the second frame has just rebuilt the primaries, the draw
\* and the text secondaries having been repopulated since the first frame
C11_Witness ==
    /\ lastOp.op = "buildCommandBuffers"
    /\ frames >= 2
    /\ enableTextOverlay
    /\ pc = "acquire"

\* a step of updateDrawCommandBuffers
IsUpdateDrawStep ==
    /\ pc \in {"prepareDraw", "updateDraw"}
    /\ pc' \in {"loop", "render"}

\* the step recorded into the new draw buffers what the old ones held
DrawContentUnchanged ==
    /\ drawCmdBuffers # <<>>
    /\ \A i \in 1..Len(drawCmdBuffers) :
          /\ drawCmdBuffers[i] \in DOMAIN cmdRec
          /\ cmdRec'[drawCmdBuffers'[i]] = cmdRec[drawCmdBuffers[i]]

\* C12 as stated: a call of updateDrawCommandBuffers that records unchanged
\* content leaves primaryCmdBuffersDirty false.
C12_UnchangedContentNotDirty ==
    [][(IsUpdateDrawStep /\ DrawContentUnchanged) => ~primaryCmdBuffersDirty']_vars

\* C12 amended: every call of updateDrawCommandBuffers leaves
\* primaryCmdBuffersDirty true, also when it records unchanged content.
C12_PopulateAlwaysDirties ==
    [][IsUpdateDrawStep => primaryCmdBuffersDirty']_vars

\* C12 witness: a call in the render loop, after a frame whose rebuild had
\* lowered the flag, has recorded the same content again
C12_Witness ==
    /\ lastOp.op = "updateDrawCommandBuffers"
    /\ pc = "render"
    /\ frames >= 1
    /\ ~enableTextOverlay
    /\ primaryCmdBuffersDirty
    /\ \A i \in 1..Len(drawCmdBuffers) :
          cmdRec[drawCmdBuffers[i]] = SecondaryRec("draw", i - 1)


\* C13: dirty-flag idempotence, primary side.  The prepareFrame of a frame
\* that follows a rebuilt frame with no repopulating call in between (the
\* render override drawing again) is taken whether or not the queue is idle,
\* queues nothing for destruction, allocates and records nothing, leaves the
\* primaries and the flag alone and goes on to acquireNextImage.
C13_RebuildSkipped ==
    /\ []((pc = "prepareFrame" /\ lastOp.op = "renderAgain") => ENABLED PrepareFrame)
    /\ [][(pc = "prepareFrame" /\ lastOp.op = "renderAgain" /\ pc' # pc)
             => /\ pc' = "acquire"
                /\ lastOp'.op = "prepareFrame"
                /\ PrimariesUntouched
                /\ UNCHANGED <<dumpster, recycler, cmdRec, nextHandle,
                               submissions, primaryCmdBuffersDirty>>]_vars

\* C13 witness: the rebuild was skipped while the previous frame's
\* submission had not completed
C13_Witness ==
    /\ lastOp.op = "prepareFrame"
    /\ pc = "acquire"
    /\ ~QueueIdle
    /\ ~primaryCmdBuffersDirty

\* C14: building the primaries while the draw buffers are empty is fatal and
\* changes nothing: the step trashes, allocates and records no buffer,
\* leaves the dirty flag set, and the thread does nothing afterwards (no
\* acquire, submit or present follows).
C14_BuildWithoutDrawsIsFatal ==
    /\ [][(pc = "prepareFrame" /\ primaryCmdBuffersDirty
              /\ drawCmdBuffers = <<>> /\ pc' # pc)
             => /\ pc' = "terminated"
                /\ primaryCmdBuffersDirty'
                /\ framePhases' = <<>>
                /\ UNCHANGED <<primaryCmdBuffers, dumpster, recycler, cmdRec,
                               cmdFreed, nextHandle, submissions,
                               currentBuffer, currentImage>>]_vars
    /\ [][pc = "terminated"
             => UNCHANGED <<pc, lastOp, framePhases, submissions,
                            primaryCmdBuffers, cmdRec>>]_vars

\* C14 witness: the build has thrown in a frame started before the draw
\* buffers were populated
C14_Witness ==
    /\ pc = "terminated"
    /\ lastOp.op = "throw"
    /\ drawCmdBuffers = <<>>
    /\ primaryCmdBuffers = <<>>
    /\ primaryCmdBuffersDirty


\* a step, made after the render loop has exited, that releases a resource
ShutdownRelease ==
    /\ pc \in {"loopExit", "waitIdle", "dtor"}
    /\ \/ SDLWindow' # SDLWindow
       \/ cmdFreed' # cmdFreed
       \/ semDestroyed' # semDestroyed

\* C15: shutdown.  The render loop is left only once quit has been
\* observed, and every release made after it (the window, the command
\* buffers, the semaphores) is made after the idle waits of run(), with no
\* submission still outstanding.
C15_IdleBeforeRelease ==
    /\ [](pc = "loopExit" => quit)
    /\ [][ShutdownRelease => (pc = "dtor" /\ QueueIdle)]_vars

\* C16: resize.  Once the window has been resized, no image is acquired and
\* no frame is submitted before the swapchain (with its framebuffers, presents, render
\* pass and depth-stencil) has been recreated for the new size.
C16_ResizeRecreatesSwapchain ==
    (lastOp.op \in {"acquireNextImage", "drawCurrentCommandBuffer"})
        => swapChainSize = windowSize

\* C17: out-of-date.  A failed acquireNextImage abandons the frame without
\* submitting or presenting, and the render loop goes on, with a swapchain
\* recreated for the window's size, instead of terminating.
C17_OutOfDateRetried ==
    (lastOp.op = "outOfDate")
        => (pc # "terminated" /\ swapChainSize = windowSize)

\* C18: recycle() once per frame.  The thread comes to present only from
\* recycle(), to recycle() only from the transfer flush, to the flush only
\* from the submission of this frame's primary, and goes from recycle() to
\* present: every frame that is presented has called recycle() exactly
\* once, after its submission and its flush.
C18_RecycleOncePerFrame ==
    /\ pc = "present" => lastOp.op = "recycle"
    /\ lastOp.op = "recycle" => pc = "present"
    /\ pc = "recycle" => lastOp.op = "executePendingTransfers"
    /\ pc = "transfer" =>
          /\ lastOp.op = "drawCurrentCommandBuffer"
          /\ \E k \in MainSubmissions : submissions[k].frame = frames
    /\ lastOp.op = "submitFrame" =>
          /\ \E k \in MainSubmissions : submissions[k].frame = frames
          /\ Len(SelectSeq(framePhases, LAMBDA ph : ph = "Submitting")) = 1

\* C18 witness: a frame with a transfer flush has called recycle() and is
\* about to present
C18_Witness ==
    /\ pc = "present"
    /\ lastOp.op = "recycle"
    /\ \E j \in TransferSubmissions : submissions[j].frame = frames

\* the prefixes of a sequence
Prefixes(seq) == {SubSeq(seq, 1, n) : n \in 0..Len(seq)}

\* C19 as stated: the phases of a frame come in the order Acquiring,
\* Recording (only if dirty), Submitting, Presenting.
C19_AcquireThenRecord ==
    framePhases \in
        Prefixes(<<"Acquiring", "Recording", "Submitting", "Presenting">>)
        \cup Prefixes(<<"Acquiring", "Submitting", "Presenting">>)

\* C19 amended: the phases of a frame come in the order Recording (only if
\* dirty), Acquiring, Submitting, Presenting; outside a frame the thread is
\* idle, and a frame that has presented has gone through all of them.
C19_RecordThenAcquire ==
    /\ framePhases \in
          Prefixes(<<"Recording", "Acquiring", "Submitting", "Presenting">>)
          \cup Prefixes(<<"Acquiring", "Submitting", "Presenting">>)
    /\ pc \notin {"acquire", "draw", "transfer", "recycle", "present",
                  "rendered", "terminated"} => framePhases = <<>>
    /\ pc = "acquire" => ~primaryCmdBuffersDirty
    /\ pc = "rendered" =>
          framePhases \in {<<"Recording", "Acquiring", "Submitting", "Presenting">>,
                           <<"Acquiring", "Submitting", "Presenting">>}

\* C19 witness: one frame that recorded has presented, and the next, not
\* dirty, has presented without recording
C19_Witness ==
    /\ pc = "rendered"
    /\ framePhases = <<"Acquiring", "Submitting", "Presenting">>
    /\ frames >= 2

\* the thread is inside a call of the render loop that cannot return yet:
\* it waits for the GPU (context.recycle() only polls its fences, it has
\* no wait)
Blocked ==
    \/ pc = "loop" /\ ~ENABLED LoopTest
    \/ pc = "input" /\ ~ENABLED UpdateKeyboardMouseInfo
    \/ pc = "update" /\ ~ENABLED Update
    \/ pc = "updateDraw" /\ ~ENABLED UpdateDrawCommandBuffers
    \/ pc = "render" /\ ~ENABLED Render
    \/ pc = "prepareFrame" /\ ~ENABLED PrepareFrame
    \/ pc = "acquire" /\ ~ENABLED AcquireNextImage
    \/ pc = "draw" /\ ~ENABLED DrawCurrentCommandBuffer
    \/ pc = "transfer" /\ ~ENABLED ExecutePendingTransfers
    \/ pc = "present" /\ ~ENABLED SubmitFrame
    \/ pc = "rendered" /\ ~ENABLED RenderReturn

\* C20 as stated: before shutdown the thread blocks only in the acquisition
\* of the swapchain image and no queue idle-wait happens inside a frame: in
\* particular prepareFrame, up to the acquisition, never has to wait for the
\* queue to go idle.
C20_NoIdleWaitInFrame ==
    (pc = "prepareFrame") => ENABLED PrepareFrame

\* C20 amended: before shutdown the thread blocks only in the acquisition,
\* in the queue idle-wait of a rebuild of dirty primaries, and in the wait
\* for the image's submit fence; where it blocks for the queue in a frame,
\* the primaries are dirty.
C20_BlocksOnlyInRebuildOrFence ==
    Blocked
        => \/ pc = "acquire"
           \/ pc = "prepareFrame" /\ primaryCmdBuffersDirty /\ ~QueueIdle
           \/ pc = "draw" /\ ~SubmitFenceReady

\* C20 witness: the thread is blocked in the rebuild's queue.waitIdle()
\* behind the previous frame's submission
C20_Witness ==
    /\ Blocked
    /\ pc = "prepareFrame"
    /\ primaryCmdBuffersDirty
    /\ frames >= 1

QueuedClosures ==
    {<<0, j>> : j \in 1..Len(dumpster)}
    \cup UNION {{<<i, j>> : j \in 1..Len(recycler[i].lambda)} : i \in 1..Len(recycler)}

ClosureAt(q) ==
    IF q[1] = 0 THEN dumpster[q[2]] ELSE recycler[q[1]].lambda[q[2]]

QueuedFrees == {q \in QueuedClosures : ClosureAt(q).kind = "freeCommandBuffers"}

C23_FrameStepOrder ==
    /\ (pc = "acquire")
          => /\ lastOp.op \in {"buildCommandBuffers", "prepareFrame"}
             /\ ~primaryCmdBuffersDirty
             /\ framePhases \in {<<>>, <<"Recording">>}
    /\ (pc = "draw")
          => /\ lastOp.op = "acquireNextImage"
             /\ framePhases \in {<<"Acquiring">>, <<"Recording", "Acquiring">>}
    /\ (pc = "transfer")
          => /\ lastOp.op = "drawCurrentCommandBuffer"
             /\ dumpster = <<>>
             /\ submissions # <<>>
             /\ recycler # <<>>
             /\ LET s == submissions[Len(submissions)]
                    e == recycler[Len(recycler)]
                IN  /\ s.kind = "main"
                    /\ s.frame = frames
                    /\ s.cmd = primaryCmdBuffers[currentImage + 1]
                    /\ s.fence = e.fence
                    /\ s.fence # NullHandle
                    /\ \E j \in 1..Len(e.lambda) :
                          e.lambda[j].kind = "clearSubmitFence"
    /\ (pc = "recycle")
          => /\ lastOp.op = "executePendingTransfers"
             /\ pendingUpdates = <<>>
    /\ (pc = "present") => lastOp.op = "recycle"
    /\ (pc = "rendered")
          => /\ lastOp.op = "submitFrame"
             /\ framePhases \in {<<"Acquiring", "Submitting", "Presenting">>,
                                  <<"Recording", "Acquiring", "Submitting",
                                    "Presenting">>}
             /\ \E k \in MainSubmissions :
                   /\ submissions[k].frame = frames
                   /\ RenderComplete \in Range(submissions[k].signals)

\* C23 witness: a frame that rebuilt, acquired the second image, submitted,
\* flushed a transfer and recycled has just been presented
C23_Witness ==
    /\ pc = "rendered"
    /\ framePhases = <<"Recording", "Acquiring", "Submitting", "Presenting">>
    /\ currentImage = 1
    /\ \E k \in TransferSubmissions : submissions[k].frame = frames

\* the command buffers held by closures that wait in the dumpster or in the
\* reclaim queue
QueuedForDestruction ==
    UNION {Range(ClosureAt(q).arg) : q \in QueuedFrees}

\* C24: buildCommandBuffers allocates the primaries on its first call only:
\* a later rebuild re-records the same handles and allocates nothing, and a
\* handle in use as primaryCmdBuffers[i] never waits in the dumpster or in
\* the reclaim queue.
C24_PrimariesAllocatedOnce ==
    /\ [](Range(primaryCmdBuffers) \cap QueuedForDestruction = {})
    /\ [][(pc = "prepareFrame" /\ lastOp'.op = "buildCommandBuffers"
              /\ primaryCmdBuffers # <<>>)
            => /\ primaryCmdBuffers' = primaryCmdBuffers
               /\ nextHandle' = nextHandle]_vars

\* C25: populateSubCommandBuffers, when the vector holds a set already,
\* queues that set for deferred destruction and frees none of it during the
\* call; a fresh set of exactly as many buffers as the swapchain has images
\* replaces it; the record callback runs exactly once for each image index,
\* in ascending order, between begin and end on that index's buffer.
C25_PopulateReplaces ==
    [][IsUpdateDrawStep
        => /\ (drawCmdBuffers # <<>>)
                 => dumpster' = Append(dumpster,
                                       Closure("freeCommandBuffers", drawCmdBuffers))
           /\ (drawCmdBuffers = <<>>) => dumpster' = dumpster
           /\ cmdFreed' = cmdFreed
           /\ Range(drawCmdBuffers) \cap cmdFreed' = {}
           /\ Len(drawCmdBuffers') = ImageCount
           /\ Cardinality(Range(drawCmdBuffers')) = ImageCount
           /\ Range(drawCmdBuffers')
                 \cap (Range(drawCmdBuffers) \cup DOMAIN cmdRec \cup cmdFreed) = {}
           /\ \A i \in Images :
                 LET r == cmdRec'[drawCmdBuffers'[i + 1]]
                 IN  /\ Len(r) = 3
                     /\ r[1].cmd = "begin"
                     /\ r[2] = Cmd("draw", i, 0)
                     /\ r[3].cmd = "end"
           /\ lastOp'.ran = [j \in 1..ImageCount |-> j - 1]
           /\ currentBuffer' = 0]_vars

\* C25 witness: updateDrawCommandBuffers has just replaced the draw buffers
\* of the previous iteration, which now wait in the dumpster
C25_Witness ==
    /\ pc = "render"
    /\ lastOp.op = "updateDrawCommandBuffers"
    /\ frames >= 1
    /\ \E j \in 1..Len(dumpster) :
          /\ dumpster[j].kind = "freeCommandBuffers"
          /\ Range(dumpster[j].arg) \cap Range(drawCmdBuffers) = {}
          /\ Range(dumpster[j].arg) \cap cmdFreed = {}
          /\ dumpster[j].arg[1] + ImageCount <= drawCmdBuffers[1]

\* C26: the clearing of a fence slot is never stale: when a queued
\* clearSubmitFence(i) closure runs, the slot of image i does not hold the
\* fence of a newer submission that is still pending, so no step erases
\* from a slot a fence that has not signaled.
C26_NoStaleClear ==
    [][\A i \in Images :
          (imageFence[i] # NullHandle /\ imageFence'[i] = NullHandle)
             => FenceSignaled(imageFence[i])]_vars

\* does frame f have a main submission that signals semaphore sem?
FrameSignals(f, sem) ==
    \E k \in MainSubmissions :
        /\ submissions[k].frame = f
        /\ sem \in Range(submissions[k].signals)

\* C27: every present issued by draw() is preceded, in the same frame, by a
\* submission that signals the semaphore the present waits on
\* (render-complete): drawCurrentCommandBuffer is never left towards
\* submitFrame without that submission, and every present made so far has
\* one.
C27_PresentAfterSignalingSubmit ==
    /\ (pc = "present") => FrameSignals(frames, RenderComplete)
    /\ \A j \in 1..Len(presents) :
          /\ presents[j].wait = RenderComplete
          /\ FrameSignals(presents[j].frame, presents[j].wait)

\* C27 witness: the second frame has been presented, each present after a
\* submission of its own frame
C27_Witness ==
    /\ pc = "rendered"
    /\ Len(presents) = 2
    /\ presents[2].frame = 2
    /\ Cardinality(MainSubmissions) = 2

\* the fences that were passed to a queue submission
SubmittedFences == {submissions[k].fence : k \in 1..Len(submissions)}

\* the submission reclaim entry e is tied to waits on every semaphore that
\* the entry destroys after having been signaled by a transfer
ConsumedSemaphoresWaited(e) ==
    \A j \in 1..Len(e.lambda) :
        (/\ e.lambda[j].kind = "destroySemaphore"
         /\ \E t \in TransferSubmissions :
               e.lambda[j].arg[1] \in Range(submissions[t].signals))
          => \E k \in MainSubmissions :
                /\ submissions[k].fence = e.fence
                /\ e.lambda[j].arg[1] \in WaitSems(submissions[k])

\* C28: every fence passed to emptyDumpster is the fence of a queue
\* submission by the time drawCurrentCommandBuffer goes on: no reclaim
\* entry, no fence slot, no consumed transfer-complete semaphore and no
\* created transfer-pending semaphore is left tied to a fence that was
\* never submitted.
C28_DumpsterFenceSubmitted ==
    /\ \A i \in 1..Len(recycler) :
          /\ recycler[i].fence \in SubmittedFences
          /\ ConsumedSemaphoresWaited(recycler[i])
    /\ \A i \in Images :
          imageFence[i] # NullHandle => imageFence[i] \in SubmittedFences
    /\ (transferPending # NullHandle)
          => \E k \in MainSubmissions :
                /\ transferPending \in Range(submissions[k].signals)
                /\ submissions[k].fence # NullHandle

\* C28 witness: the second frame consumed the transfer-complete semaphore
\* of the first, created a transfer-pending semaphore and has just been
\* submitted with the fence its reclaim entry carries
C28_Witness ==
    /\ pc = "transfer"
    /\ frames = 2
    /\ transferPending # NullHandle
    /\ recycler # <<>>
    /\ LET e == recycler[Len(recycler)]
       IN  /\ e.fence = submissions[Len(submissions)].fence
           /\ \E j \in 1..Len(e.lambda) : e.lambda[j].kind = "destroySemaphore"

\* C29: the primary that a frame submits and the fence slot that the frame
\* schedules for clearing are those of the image index that the frame's
\* acquireNextImage returned: currentBuffer, which populateSubCommandBuffers
\* leaves at 0, holds the acquired index from prepareFrame to the
\* submission.
C29_SubmitIndexIsAcquired ==
    /\ (pc = "draw") => currentBuffer = currentImage
    /\ (pc = "transfer")
          => LET s == submissions[Len(submissions)]
                 e == recycler[Len(recycler)]
             IN  /\ currentBuffer = currentImage
                 /\ s.image = currentImage
                 /\ s.cmd = primaryCmdBuffers[currentImage + 1]
                 /\ imageFence[currentImage] = s.fence
                 /\ \A j \in 1..Len(e.lambda) :
                       e.lambda[j].kind = "clearSubmitFence"
                          => e.lambda[j].arg = <<currentImage>>
                 /\ \E j \in 1..Len(e.lambda) :
                       e.lambda[j] = Closure("clearSubmitFence", <<currentImage>>)

\* C29 witness: in this iteration updateDrawCommandBuffers left
\* currentBuffer at 0, then the frame acquired image 1 and submitted
C29_Witness ==
    /\ pc = "transfer"
    /\ currentImage = 1
    /\ currentBuffer = 1
    /\ framePhases = <<"Recording", "Acquiring", "Submitting">>
    /\ submissions[Len(submissions)].cmd = primaryCmdBuffers[2]

\* how far the thread is from the end of the process once quit is set: the
\* frames the render() override may still draw, the position in the rest
\* of the iteration and of the shutdown, the updates that may still be
\* queued, and the work the GPU has left
QuitMeasure ==
    LET W == MaxUpdates + 3
        r == CASE pc = "update" -> 20
               [] pc = "updateDraw" -> 19
               [] pc = "render" -> 18
               [] pc = "acquire" -> 15
               [] pc = "draw" -> 14
               [] pc = "transfer" -> 13
               [] pc = "recycle" -> 12
               [] pc = "present" -> 11
               [] pc = "rendered" -> 10
               [] pc = "prepareFrame" -> 9
               [] pc = "loop" -> 8
               [] pc = "loopExit" -> 7
               [] pc = "waitIdle" -> 6
               [] pc = "dtor" -> 5
               [] OTHER -> 0
        gpu == 2 * Cardinality({k \in 1..Len(submissions) :
                                  submissions[k].st = "queued"})
               + Cardinality({k \in 1..Len(submissions) :
                                submissions[k].st = "running"})
    IN  21 * W * (MaxFrames + 1 - frames) + W * r
        + (MaxUpdates - Len(pendingUpdates)) + gpu

\* the thread waits for the GPU
WaitsForGpu ==
    \/ Blocked
    \/ pc = "waitIdle" /\ ~QueueIdle

====
